---- MODULE Spec2Model ----
(***************************************************************************)
(* Model of pyxymon.py: the XymonMessage builder (color, lifetime, title,  *)
(* section, footer, _render) and XymonClient (server and port resolution,  *)
(* send).                                                                  *)
(*                                                                         *)
(* A Python string is a sequence of tokens.  A token is one character      *)
(* where the code looks inside the string (digits, signs, the space that   *)
(* split(' ') cuts on, the leading "&" of a colour) and an opaque piece of *)
(* text elsewhere (a host name, a markup literal).  Concatenation is \o.   *)
(* An optional value (None or a value) is <<>> or <<value>>.               *)
(***************************************************************************)
EXTENDS Integers, Sequences, FiniteSets, TLC

VARIABLES _message, _footer, _color, _lifetime, test, env,
          pc, servers, port, xymon_string, idx, net, conns,
          last, arg, out, prevOut, maxRank, lastLife, lastFooter, footerCalls,
          calls, nsends

vars == <<_message, _footer, _color, _lifetime, test, env,
          pc, servers, port, xymon_string, idx, net, conns,
          last, arg, out, prevOut, maxRank, lastLife, lastFooter, footerCalls,
          calls, nsends>>

builder == <<_message, _footer, _color, _lifetime>>
sendvars == <<pc, servers, port, xymon_string, idx, conns, nsends>>

(* ---------------- bounds ---------------- *)
MaxFrags == 2
MaxSends == 1

(* ---------------- optional values ---------------- *)
None == <<>>
Some(x) == <<x>>

(* ---------------- Python values handed to int() ---------------- *)
PyInt(n) == <<"int", n>>
PyStr(s) == <<"str", s>>
PyNone == <<"NoneType", 0>>

(* ---------------- module constants ---------------- *)
STATUS_OK == <<"&", "green">>
STATUS_WARNING == <<"&", "yellow">>
STATUS_CRITICAL == <<"&", "red">>
ALL_COLORS == <<STATUS_OK, STATUS_WARNING, STATUS_CRITICAL>>
DefaultPort == 1984

(* ---------------- string helpers ---------------- *)
Digits == {"0", "1", "2", "3", "4", "5", "6", "7", "8", "9"}

DigitVal(c) ==
  CASE c = "0" -> 0 [] c = "1" -> 1 [] c = "2" -> 2 [] c = "3" -> 3
    [] c = "4" -> 4 [] c = "5" -> 5 [] c = "6" -> 6 [] c = "7" -> 7
    [] c = "8" -> 8 [] c = "9" -> 9

DigitChar(d) ==
  CASE d = 0 -> "0" [] d = 1 -> "1" [] d = 2 -> "2" [] d = 3 -> "3"
    [] d = 4 -> "4" [] d = 5 -> "5" [] d = 6 -> "6" [] d = 7 -> "7"
    [] d = 8 -> "8" [] d = 9 -> "9"

Front(s) == SubSeq(s, 1, Len(s) - 1)
LastOf(s) == s[Len(s)]

RECURSIVE DigitsValue(_)
DigitsValue(s) ==
  IF s = <<>> THEN 0 ELSE DigitsValue(Front(s)) * 10 + DigitVal(LastOf(s))

RECURSIVE LStrip(_)
LStrip(s) == IF s # <<>> /\ Head(s) = " " THEN LStrip(Tail(s)) ELSE s

RECURSIVE RStrip(_)
RStrip(s) == IF s # <<>> /\ LastOf(s) = " " THEN RStrip(Front(s)) ELSE s

(* int(str): surrounding blanks are dropped, one optional sign, then one   *)
(* or more decimal digits; anything else is a ValueError.                  *)
ParseInt(s) ==
  LET t == RStrip(LStrip(s))
      signed == t # <<>> /\ Head(t) \in {"+", "-"}
      body == IF signed THEN Tail(t) ELSE t
  IN IF body # <<>> /\ \A i \in 1..Len(body) : body[i] \in Digits
       THEN [err |-> "none",
             v |-> IF signed /\ Head(t) = "-" THEN 0 - DigitsValue(body)
                   ELSE DigitsValue(body)]
       ELSE [err |-> "ValueError", v |-> 0]

(* int(value) for an int, a str or None *)
IntOf(value) ==
  CASE value[1] = "int" -> [err |-> "none", v |-> value[2]]
    [] value[1] = "str" -> ParseInt(value[2])
    [] OTHER -> [err |-> "TypeError", v |-> 0]

RECURSIVE NatToStr(_)
NatToStr(n) ==
  IF n < 10 THEN <<DigitChar(n)>> ELSE NatToStr(n \div 10) \o <<DigitChar(n % 10)>>

(* str(int) *)
IntToStr(n) == IF n < 0 THEN <<"-">> \o NatToStr(0 - n) ELSE NatToStr(n)

(* str.split(' ') : cut at every single space, empty pieces kept *)
RECURSIVE Split(_)
Split(s) ==
  IF \A i \in 1..Len(s) : s[i] # " " THEN <<s>>
  ELSE LET k == CHOOSE i \in 1..Len(s) :
                  s[i] = " " /\ \A j \in 1..(i - 1) : s[j] # " "
       IN <<SubSeq(s, 1, k - 1)>> \o Split(SubSeq(s, k + 1, Len(s)))

(* tuple.index(x), 1-based; 0 when x is not a member *)
IndexOf(t, x) ==
  IF \E i \in 1..Len(t) : t[i] = x
    THEN CHOOSE i \in 1..Len(t) : t[i] = x /\ \A j \in 1..(i - 1) : t[j] # x
    ELSE 0

(* truth value of an optional string / an optional integer *)
TruthyStr(o) == o # None /\ o[1] # <<>>
TruthyInt(o) == o # None /\ o[1] # 0


(* ---------------- inputs ---------------- *)
Hosts1 == <<"x">>
Hosts2 == <<"host1", " ", "host2">>
Hosts3 == <<"a", " ", "b", " ", "c">>

Machines == {None, Some(<<>>), Some(<<"node1">>)}
SrvValues == {None, Some(<<>>), Some(Hosts1)}
ServersValues == {None, Some(<<>>), Some(Hosts2), Some(Hosts3)}
PortValues == {None, Some(<<"1", "9", "8", "5">>), Some(<<"a", "b", "c">>),
               Some(<<>>), Some(<<"0">>), Some(<<"-", "5">>)}
BuilderEnvs == {[MACHINE |-> Some(<<"node1">>), XYMSRV |-> None,
                 XYMONSERVERS |-> Some(Hosts2), XYMONDPORT |-> None]}
AllEnvs == [MACHINE : Machines, XYMSRV : SrvValues,
            XYMONSERVERS : ServersValues, XYMONDPORT : PortValues]
Tests == {<<"pacemaker">>}
Dates == {"date1", "date2"}

ColorInputs == {STATUS_OK, STATUS_WARNING, STATUS_CRITICAL,
                <<"&", "blue">>, <<"red">>, <<>>}
LifetimeInputs == {PyInt(30), PyInt(0), PyInt(0 - 5), PyStr(<<"4", "5">>),
                   PyStr(<<"a", "b", "c">>), PyStr(<<>>), PyNone}
TitleTexts == {<<"T">>}
SectionTitles == {<<"S1">>, <<"S2">>}
SectionBodies == {<<"online", " ", "&green">>}
CheckFilenames == {<<"check.py">>}
CheckVersions == {<<"1">>, <<"2">>}

(* ---------------- XymonMessage ---------------- *)
(* a setter that checks only the leading marker of the value *)
ColorValidMarkerOnly(value) == value # <<>> /\ Head(value) = "&"

(* color setter, line 82: value in _ALL_COLORS *)
ColorValid(value) == \E i \in 1..Len(ALL_COLORS) : ALL_COLORS[i] = value

(* a setter that assigns without comparing the ranks *)
ColorAfterAssign(cur, value) == value

(* color setter, lines 84-87: the colour stored after a valid assignment *)
ColorAfter(cur, value) ==
  IF IndexOf(ALL_COLORS, value) > IndexOf(ALL_COLORS, cur) THEN value ELSE cur

(* lifetime getter *)
LifetimeStr(l) == IF TruthyInt(l) THEN <<"+">> \o IntToStr(l[1]) ELSE <<>>

TitleMarkup(text) == <<"<br><h1>">> \o text \o <<"</h1><hr><br>">>

SectionMarkup(title, body) ==
  <<"<h2>">> \o title \o <<"</h2><p>">> \o body \o <<"</p><br>">>

FooterMarkup(check_filename, check_version) ==
  <<"<br><center>xymon script: ">> \o check_filename \o <<" version ">>
    \o check_version \o <<"</center>">>

(* a mutator that overwrites the body instead of extending it *)
Replaced(message, fragment) == fragment

(* a mutator that puts the new fragment in front of the body *)
Prepended(message, fragment) == fragment \o message

(* title and section, lines 108 and 117: self._message += fragment *)
Appended(message, fragment) == message \o fragment

(* a render that stores the footer into the body *)
MessageWithFooter(message, footer) ==
  IF ~TruthyStr(footer) THEN message ELSE message \o footer[1]

(* _render, lines 145-148: html is a local, self._message is not assigned *)
MessageAfterRender(message, footer) == message

(* _get_machine *)
GetMachine(e) ==
  IF ~TruthyStr(e.MACHINE) THEN [err |-> "RuntimeError", v |-> <<>>]
  ELSE [err |-> "none", v |-> e.MACHINE[1]]

(* a render that puts the footer in front of the body *)
HtmlFooterFirst(message, footer) ==
  IF ~TruthyStr(footer) THEN message ELSE footer[1] \o message

(* _render, line 145 *)
Html(message, footer) ==
  IF ~TruthyStr(footer) THEN message ELSE message \o footer[1]

(* _render *)
Render(e, t, date, message, footer, color, lifetime) ==
  LET machine == GetMachine(e)
  IN IF machine.err # "none" THEN [err |-> machine.err, v |-> <<>>]
     ELSE IF ~ColorValid(color) THEN [err |-> "RuntimeError", v |-> <<>>]
     ELSE [err |-> "none",
           v |-> <<"status">> \o LifetimeStr(lifetime) \o <<" ">> \o machine.v
                   \o <<".">> \o t \o <<" ">> \o Tail(color)
                   \o <<" ", date, "\n">> \o Html(message, footer) \o <<"\n">>]

(* ---------------- XymonClient ---------------- *)
(* a lookup that prefers XYMSRV *)
GetXymonServersNameSrvFirst(e) ==
  IF TruthyStr(e.XYMSRV) THEN [err |-> "none", v |-> e.XYMSRV[1]]
  ELSE IF TruthyStr(e.XYMONSERVERS) THEN [err |-> "none", v |-> e.XYMONSERVERS[1]]
  ELSE [err |-> "RuntimeError", v |-> <<>>]

(* _get_xymon_servers_name *)
GetXymonServersName(e) ==
  IF TruthyStr(e.XYMONSERVERS) THEN [err |-> "none", v |-> e.XYMONSERVERS[1]]
  ELSE IF TruthyStr(e.XYMSRV) THEN [err |-> "none", v |-> e.XYMSRV[1]]
  ELSE [err |-> "RuntimeError", v |-> <<>>]

(* _get_xymon_server_port *)
GetXymonServerPort(e) ==
  IntOf(IF e.XYMONDPORT = None THEN PyInt(DefaultPort) ELSE PyStr(e.XYMONDPORT[1]))

(* a loop that walks the list backwards *)
ServerAtReversed(srvs, i) == srvs[Len(srvs) + 1 - i]

(* send, line 225: the destination of the i-th iteration *)
ServerAt(srvs, i) == srvs[i]

(* socket.connect accepts only a port in 0..65535 *)
PortInRange(p) == p >= 0 /\ p <= 65535

(* ---------------- ghost helpers ---------------- *)
Rank(c) == CASE c = STATUS_OK -> 0 [] c = STATUS_WARNING -> 1
             [] c = STATUS_CRITICAL -> 2 [] OTHER -> 0 - 1
MaxOf(a, b) == IF a >= b THEN a ELSE b
NFrags(m) == Cardinality({i \in DOMAIN m : m[i] \in {"<br><h1>", "<h2>"}})
Done(op, err) == [op |-> op, err |-> err]

(* ---------------- initial state ---------------- *)
InitWith(envs) ==
  /\ _message = <<>>
  /\ _footer = None
  /\ _color = STATUS_OK
  /\ _lifetime = None
  /\ test \in Tests
  /\ env \in envs
  /\ pc = "idle"
  /\ servers = <<>>
  /\ port = 0
  /\ xymon_string = <<>>
  /\ idx = 0
  /\ net = <<>>
  /\ conns = 0
  /\ last = Done("init", "none")
  /\ arg = <<>>
  /\ out = None
  /\ maxRank = 0
  /\ lastLife = None
  /\ lastFooter = None
  /\ footerCalls = 0
  /\ calls = <<>>
  /\ prevOut = None
  /\ nsends = 0

(* the builder is exercised under one complete environment *)
Init == InitWith(BuilderEnvs)

(* send is exercised under every combination of the four variables *)
InitSend == InitWith(AllEnvs)

(* ---------------- builder operations ---------------- *)
ColorSet(value) ==
  /\ pc = "idle"
  /\ IF ~ColorValid(value)
       THEN /\ last' = Done("color", "ValueError")
            /\ UNCHANGED <<_color, maxRank>>
       ELSE /\ _color' = ColorAfter(_color, value)
            /\ maxRank' = MaxOf(maxRank, Rank(value))
            /\ last' = Done("color", "none")
  /\ arg' = value
  /\ out' = None
  /\ prevOut' = None
  /\ net' = <<>>
  /\ UNCHANGED <<_message, _footer, _lifetime, test, env, sendvars,
                 lastLife, lastFooter, footerCalls, calls>>

LifetimeSet(value) ==
  /\ pc = "idle"
  /\ LET r == IntOf(value)
     IN IF r.err = "none"
          THEN /\ _lifetime' = Some(r.v)
               /\ lastLife' = Some(r.v)
               /\ last' = Done("lifetime", "none")
          ELSE /\ last' = Done("lifetime", r.err)
               /\ UNCHANGED <<_lifetime, lastLife>>
  /\ arg' = value
  /\ out' = None
  /\ prevOut' = None
  /\ net' = <<>>
  /\ UNCHANGED <<_message, _footer, _color, test, env, sendvars,
                 maxRank, lastFooter, footerCalls, calls>>

Title(text) ==
  /\ pc = "idle"
  /\ NFrags(_message) < MaxFrags
  /\ _message' = Appended(_message, TitleMarkup(text))
  /\ calls' = Append(calls, <<"title", text>>)
  /\ last' = Done("title", "none")
  /\ arg' = text
  /\ out' = None
  /\ prevOut' = None
  /\ net' = <<>>
  /\ UNCHANGED <<_footer, _color, _lifetime, test, env, sendvars,
                 maxRank, lastLife, lastFooter, footerCalls>>

Section(title, body) ==
  /\ pc = "idle"
  /\ NFrags(_message) < MaxFrags
  /\ _message' = Appended(_message, SectionMarkup(title, body))
  /\ calls' = Append(calls, <<"section", title, body>>)
  /\ last' = Done("section", "none")
  /\ arg' = <<title, body>>
  /\ out' = None
  /\ prevOut' = None
  /\ net' = <<>>
  /\ UNCHANGED <<_footer, _color, _lifetime, test, env, sendvars,
                 maxRank, lastLife, lastFooter, footerCalls>>

Footer(check_filename, check_version) ==
  /\ pc = "idle"
  /\ _footer' = Some(FooterMarkup(check_filename, check_version))
  /\ lastFooter' = Some(<<check_filename, check_version>>)
  /\ footerCalls' = IF footerCalls < 2 THEN footerCalls + 1 ELSE 2
  /\ last' = Done("footer", "none")
  /\ arg' = <<check_filename, check_version>>
  /\ out' = None
  /\ prevOut' = None
  /\ net' = <<>>
  /\ UNCHANGED <<_message, _color, _lifetime, test, env, sendvars,
                 maxRank, lastLife, calls>>

RenderCall(date) ==
  /\ pc = "idle"
  /\ LET r == Render(env, test, date, _message, _footer, _color, _lifetime)
     IN /\ last' = Done("render", r.err)
        /\ out' = IF r.err = "none" THEN Some(r.v) ELSE None
        /\ _message' = IF r.err = "none" THEN MessageAfterRender(_message, _footer)
                       ELSE _message
  /\ prevOut' = out
  /\ arg' = <<date>>
  /\ net' = <<>>
  /\ UNCHANGED <<_footer, _color, _lifetime, test, env, sendvars, maxRank,
                 lastLife, lastFooter, footerCalls, calls>>

(* ---------------- send ---------------- *)
(* prevOut is the output of a render that directly precedes the render of  *)
(* the current call; it is dropped once the loop of send runs.             *)
(* net is the trace of the send call in progress or just ended:            *)
(*   <<"servers", list>>  line 222     <<"port", p>>  line 223             *)
(*   <<"render", s>>      line 224                                         *)
(*   <<"connect", host, p>>, <<"write", host, s>>, <<"close", host>>       *)
(*   <<"connect failed", host, p>>, <<"write failed", host, s>>            *)

(* lines 222-224: resolve the servers and the port, render *)
SendBegin(date) ==
  /\ pc = "idle"
  /\ nsends < MaxSends
  /\ nsends' = nsends + 1
  /\ arg' = <<date>>
  /\ out' = None
  /\ prevOut' = out
  /\ LET names == GetXymonServersName(env)
         p == GetXymonServerPort(env)
         r == Render(env, test, date, _message, _footer, _color, _lifetime)
     IN IF names.err # "none"
          THEN /\ last' = Done("send", names.err)
               /\ net' = <<>>
               /\ UNCHANGED <<pc, servers, port, xymon_string, idx, _message>>
        ELSE IF p.err # "none"
          THEN /\ last' = Done("send", p.err)
               /\ net' = << <<"servers", Split(names.v)>> >>
               /\ UNCHANGED <<pc, servers, port, xymon_string, idx, _message>>
        ELSE IF r.err # "none"
          THEN /\ last' = Done("send", r.err)
               /\ net' = << <<"servers", Split(names.v)>>, <<"port", p.v>> >>
               /\ UNCHANGED <<pc, servers, port, xymon_string, idx, _message>>
        ELSE /\ servers' = Split(names.v)
             /\ port' = p.v
             /\ xymon_string' = r.v
             /\ _message' = MessageAfterRender(_message, _footer)
             /\ net' = << <<"servers", Split(names.v)>>, <<"port", p.v>>,
                          <<"render", r.v>> >>
             /\ idx' = 1
             /\ pc' = "connect"
             /\ last' = Done("sending", "none")
  /\ UNCHANGED <<_footer, _color, _lifetime, test, env, conns, maxRank,
                 lastLife, lastFooter, footerCalls, calls>>

(* send returns or raises: its locals are gone *)
Return ==
  /\ servers' = <<>>
  /\ port' = 0
  /\ xymon_string' = <<>>
  /\ idx' = 0

(* a loop that swallows the exception and goes on with the next server *)
PcAfterErrorContinue(i, n) == IF i < n THEN "connect" ELSE "idle"

(* lines 225-229: nothing catches an exception of connect or send, so the  *)
(* loop is left and the exception reaches the caller                       *)
PcAfterError(i, n) == "idle"

(* an exception in iteration idx *)
Raise(err) ==
  /\ pc' = PcAfterError(idx, Len(servers))
  /\ IF pc' = "idle"
       THEN /\ last' = Done("send", err)
            /\ Return
       ELSE /\ idx' = idx + 1
            /\ UNCHANGED <<last, servers, port, xymon_string>>

(* lines 226-227: a new socket, connect((server, port)) *)
SendConnect(ok) ==
  /\ pc = "connect"
  /\ prevOut' = None
  /\ ok => PortInRange(port)
  /\ IF ok
       THEN /\ net' = Append(net, <<"connect", ServerAt(servers, idx), port>>)
            /\ conns' = conns + 1
            /\ pc' = "write"
            /\ UNCHANGED <<last, servers, port, xymon_string, idx>>
       ELSE /\ net' = Append(net, <<"connect failed", ServerAt(servers, idx), port>>)
            /\ Raise(IF PortInRange(port) THEN "OSError" ELSE "OverflowError")
            /\ UNCHANGED conns
  /\ UNCHANGED <<builder, test, env, nsends, arg, out, maxRank, lastLife,
                 lastFooter, footerCalls, calls>>

(* line 228: sock.send(xymon_string.encode("utf-8")) *)
SendWrite(ok) ==
  /\ pc = "write"
  /\ prevOut' = None
  /\ IF ok
       THEN /\ net' = Append(net, <<"write", ServerAt(servers, idx), xymon_string>>)
            /\ pc' = "close"
            /\ UNCHANGED <<last, servers, port, xymon_string, idx>>
       ELSE /\ net' = Append(net, <<"write failed", ServerAt(servers, idx), xymon_string>>)
            /\ Raise("OSError")
  /\ UNCHANGED <<builder, test, env, nsends, conns, arg, out, maxRank,
                 lastLife, lastFooter, footerCalls, calls>>

(* line 229: sock.close(), then the next iteration or the return *)
SendClose ==
  /\ pc = "close"
  /\ prevOut' = None
  /\ net' = Append(net, <<"close", ServerAt(servers, idx)>>)
  /\ conns' = conns - 1
  /\ IF idx < Len(servers)
       THEN /\ idx' = idx + 1
            /\ pc' = "connect"
            /\ UNCHANGED <<last, servers, port, xymon_string>>
       ELSE /\ pc' = "idle"
            /\ last' = Done("send", "none")
            /\ Return
  /\ UNCHANGED <<builder, test, env, nsends, arg, out, maxRank, lastLife,
                 lastFooter, footerCalls, calls>>

Next ==
  \/ \E value \in ColorInputs : ColorSet(value)
  \/ \E value \in LifetimeInputs : LifetimeSet(value)
  \/ \E text \in TitleTexts : Title(text)
  \/ \E title \in SectionTitles, body \in SectionBodies : Section(title, body)
  \/ \E f \in CheckFilenames, v \in CheckVersions : Footer(f, v)
  \/ \E date \in Dates : RenderCall(date)
  \/ \E date \in Dates : SendBegin(date)
  \/ \E ok \in BOOLEAN : SendConnect(ok)
  \/ \E ok \in BOOLEAN : SendWrite(ok)
  \/ SendClose

Spec == Init /\ [][Next]_vars

(* the calls of a typical check script, then send *)
NextSend ==
  \/ \E value \in {STATUS_CRITICAL} : ColorSet(value)
  \/ \E value \in {PyInt(30)} : LifetimeSet(value)
  \/ \E title \in {<<"S1">>}, body \in SectionBodies : Section(title, body)
  \/ \E f \in CheckFilenames, v \in {<<"1">>} : Footer(f, v)
  \/ \E date \in Dates : SendBegin(date)
  \/ \E ok \in BOOLEAN : SendConnect(ok)
  \/ \E ok \in BOOLEAN : SendWrite(ok)
  \/ SendClose

SpecSend == InitSend /\ [][NextSend]_vars

TypeOK == pc \in {"idle", "connect", "write", "close"}


(* ======================= properties ======================= *)
DefinedTokens == {<<"&", "green">>, <<"&", "yellow">>, <<"&", "red">>}
Positions(s, tok) == {i \in DOMAIN s : s[i] = tok}
IsPrefix(a, b) == Len(a) <= Len(b) /\ SubSeq(b, 1, Len(a)) = a
Rendered == last = Done("render", "none")

(* C1: the severity is always the highest rank among OK and the valid      *)
(* levels assigned so far, and no step lowers it.                          *)
SeverityRatchet ==
  /\ [](Rank(_color) = maxRank)
  /\ [][Rank(_color') >= Rank(_color)]_vars

(* a valid level below the current one was assigned and changed nothing *)
SeverityRatchetWitness ==
  /\ last = Done("color", "none")
  /\ Rank(arg) < Rank(_color)
  /\ _color = STATUS_CRITICAL

(* C2: assigning a value that is not one of the three tokens raises and    *)
(* leaves the severity, the body, the footer and the lifetime as they were *)
InvalidSeverityRejected ==
  [][(last'.op = "color" /\ arg' \notin DefinedTokens)
       => (last'.err = "ValueError"
           /\ UNCHANGED <<_color, _message, _footer, _lifetime>>)]_vars

InvalidSeverityRejectedWitness ==
  /\ last = Done("color", "ValueError")
  /\ _color = STATUS_CRITICAL
  /\ _message # <<>>
  /\ _footer # None
  /\ _lifetime # None

(* ---- send ---- *)
Attempts == {"connect", "connect failed", "write", "write failed"}
Failures == {"connect failed", "write failed"}

PortTextValid(o) ==
  o = None \/ (ParseInt(o[1]).err = "none" /\ ParseInt(o[1]).v \in 1..65535)

ConfigError(e) ==
  \/ e.MACHINE \in {None, Some(<<>>)}
  \/ (e.XYMONSERVERS \in {None, Some(<<>>)} /\ e.XYMSRV \in {None, Some(<<>>)})
  \/ ~PortTextValid(e.XYMONDPORT)

(* C3: with MACHINE missing, no server list or an invalid XYMONDPORT, send *)
(* fails and no connection to any destination is ever attempted.           *)
ConfigErrorsPrecedeIO ==
  ConfigError(env) =>
    /\ conns = 0
    /\ \A k \in DOMAIN net : net[k][1] \notin Attempts
    /\ (last.op = "send" => last.err # "none")

Triple(h, p, s) == << <<"connect", h, p>>, <<"write", h, s>>, <<"close", h>> >>

RECURSIVE Delivered(_, _, _, _)
Delivered(L, p, s, n) ==
  IF n = 0 THEN <<>> ELSE Delivered(L, p, s, n - 1) \o Triple(L[n], p, s)

Prologue(L, p, s) == << <<"servers", L>>, <<"port", p>>, <<"render", s>> >>

(* C4: a failed connect or write at destination i ends send with the       *)
(* error; destinations 1..i-1 were connected, written the payload and      *)
(* closed, and nothing after i is attempted.                               *)
AbortOnFirstFailure ==
  \A k \in DOMAIN net : net[k][1] \in Failures =>
    /\ k = Len(net)
    /\ pc = "idle"
    /\ last.op = "send" /\ last.err \in {"OSError", "OverflowError"}
    /\ LET L == net[1][2]
           p == net[2][2]
           s == net[3][2]
       IN \E i \in 1..Len(L) :
            \/ net = Prologue(L, p, s) \o Delivered(L, p, s, i - 1)
                       \o << <<"connect failed", L[i], p>> >>
            \/ net = Prologue(L, p, s) \o Delivered(L, p, s, i - 1)
                       \o << <<"connect", L[i], p>>, <<"write failed", L[i], s>> >>

(* the write to the second of three destinations failed *)
AbortOnFirstFailureWitness ==
  /\ last = Done("send", "OSError")
  /\ Len(net) = 8
  /\ net[8][1] = "write failed"
  /\ Len(net[1][2]) = 3

(* C5: at most one connection is open at any time and none is open once    *)
(* send has returned or raised.                                            *)
ConnectionScoped == conns <= 1 /\ (pc = "idle" => conns = 0)

(* C6: without transport errors the trace of a send is: one render, then   *)
(* connect, write, close for each destination in resolution order, each    *)
(* write carrying the rendered payload; send returns when all are done.    *)
SendOrdering ==
  (Len(net) >= 3 /\ \A k \in DOMAIN net : net[k][1] \notin Failures) =>
    LET full == Prologue(net[1][2], net[2][2], net[3][2])
                  \o Delivered(net[1][2], net[2][2], net[3][2], Len(net[1][2]))
    IN /\ IsPrefix(net, full)
       /\ (pc = "idle") = (net = full)
       /\ (pc = "idle") => last = Done("send", "none")
       /\ (pc # "idle") => net[1][2] = servers /\ net[3][2] = xymon_string

SendOrderingWitness ==
  /\ last = Done("send", "none")
  /\ Len(net) = 12
  /\ Len(net[3][2]) > 9

ServersChosen(e) ==
  IF e.XYMONSERVERS \notin {None, Some(<<>>)} THEN e.XYMONSERVERS
  ELSE IF e.XYMSRV \notin {None, Some(<<>>)} THEN e.XYMSRV
  ELSE None

RECURSIVE Join(_)
Join(L) ==
  IF Len(L) = 1 THEN L[1] ELSE Join(Front(L)) \o <<" ">> \o LastOf(L)

(* C7: send takes XYMONSERVERS when it is set and not empty, else XYMSRV   *)
(* when that is set and not empty, else fails; the value is cut at its     *)
(* spaces into the ordered host names.                                     *)
DestinationResolution ==
  last.op \in {"send", "sending"} =>
    IF ServersChosen(env) = None
      THEN last = Done("send", "RuntimeError") /\ net = <<>>
      ELSE /\ net # <<>>
           /\ net[1][1] = "servers"
           /\ Join(net[1][2]) = ServersChosen(env)[1]
           /\ \A i \in DOMAIN net[1][2] : Positions(net[1][2][i], " ") = {}
           /\ (ServersChosen(env)[1] = <<"a", " ", "b", " ", "c">>
                 => net[1][2] = << <<"a">>, <<"b">>, <<"c">> >>)
           /\ (ServersChosen(env)[1] = <<"x">> => net[1][2] = << <<"x">> >>)

(* both variables are set and the list of XYMONSERVERS is taken *)
DestinationResolutionWitness ==
  /\ last.op \in {"send", "sending"}
  /\ env.XYMSRV = Some(<<"x">>)
  /\ net # <<>>
  /\ net[1] = <<"servers", << <<"a">>, <<"b">>, <<"c">> >> >>

(* C8: once the servers are resolved, the port is 1984 when XYMONDPORT is  *)
(* unset, the number when it is the text of a positive integer, and an     *)
(* error when it is anything else (letters, empty, zero, negative).        *)
PortResolution ==
  (last.op \in {"send", "sending"} /\ net # <<>>) =>
    /\ env.XYMONDPORT = None => (Len(net) >= 2 /\ net[2] = <<"port", 1984>>)
    /\ env.XYMONDPORT = Some(<<"1", "9", "8", "5">>)
         => (Len(net) >= 2 /\ net[2] = <<"port", 1985>>)
    /\ env.XYMONDPORT \in {Some(<<"a", "b", "c">>), Some(<<>>), Some(<<"0">>),
                           Some(<<"-", "5">>)}
         => (Len(net) = 1 /\ last.op = "send" /\ last.err # "none")

(* ---- render ---- *)
Decimal(n) ==
  CASE n = 30 -> <<"3", "0">> [] n = 45 -> <<"4", "5">> [] n = 0 -> <<"0">>
    [] n = 0 - 5 -> <<"-", "5">>

(* C9: a rendered message starts with "status", then nothing when no       *)
(* lifetime was assigned and "+<minutes>" of the latest accepted           *)
(* assignment otherwise; a rejected assignment keeps the stored lifetime.  *)
LifetimePrefix ==
  /\ Rendered =>
       IsPrefix(<<"status">>
                  \o (IF lastLife = None THEN <<>>
                      ELSE <<"+">> \o Decimal(lastLife[1]))
                  \o <<" ">>, out[1])
  /\ (last.op = "lifetime" /\ last.err # "none") => _lifetime = lastLife

FooterStart == "<br><center>xymon script: "

(* C10: a rendered message has at most one footer, built from the latest   *)
(* footer call and placed after every title and section; a footer call     *)
(* leaves the body, the severity and the lifetime alone.                   *)
FooterOverwrite ==
  /\ [](Rendered =>
         LET s == out[1]
             fp == Positions(s, FooterStart)
         IN /\ Cardinality(fp) <= 1
            /\ lastFooter = None => fp = {}
            /\ lastFooter # None =>
                 \E k \in fp :
                   /\ SubSeq(s, k, Len(s)) =
                        <<FooterStart>> \o lastFooter[1][1] \o <<" version ">>
                          \o lastFooter[1][2] \o <<"</center>", "\n">>
                   /\ \A j \in Positions(s, "<br><h1>") \cup Positions(s, "<h2>") :
                        j < k)
  /\ [][last'.op = "footer" => UNCHANGED <<_message, _color, _lifetime>>]_vars

(* footer was called twice and the message has two fragments *)
FooterOverwriteWitness ==
  /\ Rendered
  /\ footerCalls = 2
  /\ NFrags(_message) >= 2
  /\ Positions(out[1], FooterStart) # {}

(* ---- body ---- *)
FirstPos(s, tok) ==
  CHOOSE i \in Positions(s, tok) : \A j \in Positions(s, tok) : i <= j

(* the body part of a rendered message: after the status line, without    *)
(* the final newline                                                       *)
HtmlOf(s) == SubSeq(s, FirstPos(s, "\n") + 1, Len(s) - 1)

IsSectionCall(c) == c[1] = "section"
IsTitleCall(c) == c[1] = "title"

(* the section blocks read back from a body, in the order they stand there *)
RECURSIVE SectionsIn(_)
SectionsIn(h) ==
  IF Positions(h, "<h2>") = {} THEN <<>>
  ELSE LET rest == SubSeq(h, FirstPos(h, "<h2>") + 1, Len(h))
           b == FirstPos(rest, "</h2><p>")
           c == FirstPos(rest, "</p><br>")
       IN << <<"section", SubSeq(rest, 1, b - 1), SubSeq(rest, b + 1, c - 1)>> >>
            \o SectionsIn(SubSeq(rest, c + 1, Len(rest)))

(* C11: no step removes or reorders what the body holds, a section call    *)
(* adds exactly its one block at the end, and a rendered message shows the *)
(* sections in the order of the section calls.                             *)
SectionOrder ==
  /\ [][/\ IsPrefix(_message, _message')
        /\ last'.op = "section" =>
             _message' = _message \o <<"<h2>">> \o arg'[1] \o <<"</h2><p>">>
                           \o arg'[2] \o <<"</p><br>">>]_vars
  /\ [](Rendered => SectionsIn(HtmlOf(out[1])) = SelectSeq(calls, IsSectionCall))

(* two different sections, the second-named one added first *)
SectionOrderWitness ==
  /\ Rendered
  /\ calls = << <<"section", <<"S2">>, <<"online", " ", "&green">> >>,
                <<"section", <<"S1">>, <<"online", " ", "&green">> >> >>

BlockOf(c) ==
  IF c[1] = "title" THEN <<"<br><h1>">> \o c[2] \o <<"</h1><hr><br>">>
  ELSE <<"<h2>">> \o c[2] \o <<"</h2><p>">> \o c[3] \o <<"</p><br>">>

RECURSIVE Blocks(_)
Blocks(cs) == IF cs = <<>> THEN <<>> ELSE BlockOf(Head(cs)) \o Blocks(Tail(cs))

FooterBlock ==
  IF lastFooter = None THEN <<>>
  ELSE <<FooterStart>> \o lastFooter[1][1] \o <<" version ">>
         \o lastFooter[1][2] \o <<"</center>">>

(* C12, as claimed: the rendered body is the title block first, then the   *)
(* sections in the order they were added, then the footer, whatever the    *)
(* order of the calls.                                                     *)
BodyLayoutTitleFirst ==
  Rendered =>
    HtmlOf(out[1]) = Blocks(SelectSeq(calls, IsTitleCall))
                       \o Blocks(SelectSeq(calls, IsSectionCall)) \o FooterBlock

(* C12, amended: the rendered body is the title and section blocks in the  *)
(* order of the calls that added them, then the footer if one was set.     *)
BodyLayoutCallOrder ==
  Rendered => HtmlOf(out[1]) = Blocks(calls) \o FooterBlock

(* a title added after a section, with a footer *)
BodyLayoutCallOrderWitness ==
  /\ Rendered
  /\ lastFooter # None
  /\ Len(calls) = 2
  /\ calls[1][1] = "section"
  /\ calls[2][1] = "title"

SameExceptDate(a, b) ==
  /\ Len(a) = Len(b)
  /\ \A i \in 1..Len(a) : i # FirstPos(a, "\n") - 1 => a[i] = b[i]

(* C13: render and send leave the body, the footer, the severity and the   *)
(* lifetime as they were, and a render (or the render of send) that        *)
(* directly follows a render gives the same text but for the date.         *)
RenderIdempotence ==
  /\ [][last'.op \in {"render", "send", "sending"}
          => UNCHANGED <<_message, _footer, _color, _lifetime>>]_vars
  /\ []((Rendered /\ prevOut # None) => SameExceptDate(prevOut[1], out[1]))
  /\ []((last.op = "sending" /\ prevOut # None)
          => SameExceptDate(prevOut[1], net[3][2]))

(* two renders in a row at different dates of a message with a footer *)
RenderIdempotenceWitness ==
  /\ Rendered
  /\ prevOut # None
  /\ prevOut # out
  /\ _message # <<>>
  /\ _footer # None
  /\ _lifetime # None

====
